---- MODULE Spec2Model ----
(***************************************************************************)
(* A model of src/ai_reply_engine.py: the AIReplyEngine (client cache,     *)
(* intent classifier, reply composer, conversation store adapter) and the  *)
(* DashScopeClient, run by worker threads against shared state.            *)
(*                                                                         *)
(* Every public method is a sequence of steps of one thread; a step is one *)
(* access to shared state (the settings table, the client cache, the       *)
(* storage lock, the conversation table) or one provider call, together    *)
(* with the local computation that follows it.                             *)
(***************************************************************************)
EXTENDS Naturals, Integers, Sequences, FiniteSets, TLC

VARIABLES
    settings,   \* db_manager's settings table: account id -> AccountSettings
    clients,    \* self.clients: account id -> client instance
    store,      \* rows of ai_conversations, in insertion (rowid) order
    clock,      \* the storage's clock, which stamps created_at
    lock,       \* db_manager.lock: the thread holding it, or NoThread
    th          \* per thread: the running call, its position and its locals

vars == <<settings, clients, store, clock, lock, th>>

-----------------------------------------------------------------------------
(* Bounds of the model. *)

MaxRows == 3     \* rows the conversation store may hold
MaxTurns == 4    \* the same where two replies are composed: two turns each

Threads == {"t1", "t2"}
NoThread == "none"

Cookies == {"", "a"}
Chats == {"c1", "c2"}
Messages == {"m"}
Roles == {"user", "assistant"}

-----------------------------------------------------------------------------
(* Values. *)

None == [kind |-> "None"]
Text(s) == [kind |-> "str", val |-> s]
Raised == [kind |-> "raise"]
Pending == [kind |-> "pending"]

(* A base URL is a sequence of tokens; "D" is the host dashscope.aliyuncs.com,
   "apps/" the path marker, "/" a slash, anything else plain text. *)
URL_NONE == <<>>
URL_GENERIC == <<"https://", "api.example.com", "/", "v1">>
URL_DS_OK == <<"https://", "D", "/", "api", "/", "v1", "/", "apps/", "12345", "/", "completion">>
URL_DS_NOSLASH == <<"https://", "D", "/", "apps/", "12345">>
URL_DS_NOAPPS == <<"https://", "D", "/", "api", "/", "v1">>
URL_DS_EMPTYID == <<"https://", "D", "/", "apps/", "/", "completion">>

(* custom_prompts column: "" (empty), a JSON object, or text json.loads rejects. *)
PROMPTS_EMPTY == ""
PROMPTS_JSON == "{json}"
PROMPTS_MALFORMED == "{malformed"

Settings(en, key, url, cp) ==
    [ai_enabled |-> en, api_key |-> key, base_url |-> url,
     model_name |-> "model", custom_prompts |-> cp]

DefaultSettings == Settings(FALSE, "", URL_NONE, PROMPTS_EMPTY)

SettingsValues ==
    { DefaultSettings,
      Settings(FALSE, "k1", URL_GENERIC, PROMPTS_EMPTY),
      Settings(TRUE, "", URL_GENERIC, PROMPTS_EMPTY),
      Settings(TRUE, "k1", URL_GENERIC, PROMPTS_EMPTY),
      Settings(TRUE, "k2", URL_NONE, PROMPTS_JSON),
      Settings(TRUE, "k1", URL_GENERIC, PROMPTS_MALFORMED),
      Settings(TRUE, "k1", URL_DS_OK, PROMPTS_EMPTY),
      Settings(TRUE, "k1", URL_DS_NOSLASH, PROMPTS_EMPTY),
      Settings(TRUE, "k1", URL_DS_NOAPPS, PROMPTS_EMPTY),
      Settings(TRUE, "k1", URL_DS_EMPTYID, PROMPTS_EMPTY) }

-----------------------------------------------------------------------------
(* Pure helpers. *)

RECURSIVE SplitOn(_, _)
(* str.split(sep) on a token sequence: the pieces between occurrences of sep. *)
SplitOn(s, sep) ==
    IF \A i \in 1..Len(s) : s[i] # sep
    THEN <<s>>
    ELSE LET i == CHOOSE k \in 1..Len(s) :
                      s[k] = sep /\ \A j \in 1..(k - 1) : s[j] # sep
         IN <<SubSeq(s, 1, i - 1)>> \o SplitOn(SubSeq(s, i + 1, Len(s)), sep)

Contains(s, tok) == \E i \in 1..Len(s) : s[i] = tok

(* base_url.split("apps/")[1].split("/")[0]; IndexError when there is no [1]. *)
AppIdParse(url) ==
    LET parts == SplitOn(url, "apps/")
    IN IF Len(parts) < 2
       THEN [ok |-> FALSE, app_id |-> <<>>]
       ELSE [ok |-> TRUE, app_id |-> SplitOn(parts[2], "/")[1]]

IsDashScopeUrl(url) == url # URL_NONE /\ Contains(url, "D")

(* json.loads(settings['custom_prompts']) if settings['custom_prompts'] else {} *)
PromptsParse(cp) ==
    IF cp = PROMPTS_EMPTY THEN [ok |-> TRUE, custom |-> FALSE]
    ELSE IF cp = PROMPTS_JSON THEN [ok |-> TRUE, custom |-> TRUE]
    ELSE [ok |-> FALSE, custom |-> FALSE]

(* str.strip() and str.lower() on the provider outputs the model draws. *)
Strip(s) ==
    CASE s = " tech " -> "tech"
      [] s = " r " -> "r"
      [] OTHER -> s

Lower(s) ==
    CASE s = "TECH" -> "tech"
      [] s = "Default" -> "default"
      [] OTHER -> s

IsClient(c) == c.kind \in {"DashScopeClient", "OpenAI"}

Min(S) == CHOOSE x \in S : \A y \in S : x <= y

IsPrefix(s, t) == Len(s) <= Len(t) /\ SubSeq(t, 1, Len(s)) = s

Reverse(s) == [i \in 1..Len(s) |-> s[Len(s) + 1 - i]]

-----------------------------------------------------------------------------
(* Thread state. *)

NoSettings == [kind |-> "None"]
NoClients == [c \in {} |-> None]

IdleT ==
    [op |-> "idle", pc |-> "idle", stack |-> <<>>, ret |-> None,
     cookie |-> "", given |-> TRUE, chat |-> "", message |-> "",
     role |-> "", content |-> "", limit |-> 0,
     settings |-> NoSettings, client |-> None,
     gr_client |-> None, gr_settings |-> NoSettings,
     intent |-> "", context |-> <<>>, reply |-> None,
     result |-> Pending,
     \* history of the running call, read by the properties only: the calls it
     \* made on the providers ("classify", "generate") and on the storage
     \* ("read", "write") in order, and the parameters of each provider call
     calls |-> <<>>, params |-> <<>>,
     rfail |-> FALSE, wfail |-> 0, wrote |-> <<>>, ctorfail |-> FALSE]

(* `return v` / an exception leaving the running function: back to the caller's
   continuation, or the end of the thread's call. *)
ReturnTo(s, v) ==
    IF s.stack = <<>>
    THEN [s EXCEPT !.pc = "done", !.result = v, !.ret = None]
    ELSE [s EXCEPT !.pc = Head(s.stack), !.stack = Tail(s.stack), !.ret = v]

(* A call of an inner function: run it from `entry`, continue at `cont`. *)
CallFrom(s, entry, cont) ==
    [s EXCEPT !.pc = entry, !.stack = <<cont>> \o s.stack]

Disabled(st) == ~st.ai_enabled \/ st.api_key = ""

(* Instance identity, as id() gives it: a number no live object has. *)
LiveIds ==
    { clients[c].id : c \in DOMAIN clients }
    \cup { r.id : r \in { x \in UNION { {th[t].ret, th[t].client, th[t].gr_client, th[t].result}
                                         : t \in Threads } : IsClient(x) } }

FreshId == Min((1..(Cardinality(LiveIds) + 1)) \ LiveIds)

DashScopeClient(api_key, app_id, id) ==
    [kind |-> "DashScopeClient", api_key |-> api_key, app_id |-> app_id, id |-> id]

OpenAI(api_key, base_url, id) ==
    [kind |-> "OpenAI", api_key |-> api_key, base_url |-> base_url, id |-> id]

CachePut(cl, k, v) == [c \in DOMAIN cl \cup {k} |-> IF c = k THEN v ELSE cl[c]]
CachePop(cl, k) == [c \in DOMAIN cl \ {k} |-> cl[c]]
CacheGet(cl, k) == IF k \in DOMAIN cl THEN cl[k] ELSE None

-----------------------------------------------------------------------------
(* The storage collaborator: settings edits and the passing of time. *)

SetSettings(c, st) ==
    /\ settings[c] # st
    /\ settings' = [settings EXCEPT ![c] = st]
    /\ UNCHANGED <<clients, store, clock, lock, th>>

(* The clock is read only to stamp created_at, so it is advanced only after
   a row was stamped with its present value. *)
Tick ==
    /\ store # <<>>
    /\ store[Len(store)].created_at = clock
    /\ clock' = clock + 1
    /\ UNCHANGED <<settings, clients, store, lock, th>>

-----------------------------------------------------------------------------
(* db_manager.get_ai_reply_settings(cookie_id): the stored settings, or an
   exception when the lookup fails. *)
SettingsLookup(c) ==
    { [ok |-> TRUE, st |-> settings[c]], [ok |-> FALSE, st |-> NoSettings] }

-----------------------------------------------------------------------------
(* get_client, lines 92-128. *)

get_client_check(t) ==
    /\ th[t].pc = "gc_check"
    /\ th' = [th EXCEPT ![t].pc =
                IF th[t].cookie \notin DOMAIN clients THEN "gc_settings" ELSE "gc_return"]
    /\ UNCHANGED <<settings, clients, store, clock, lock>>

(* lines 95-111: the settings read, the enablement test, the app id parse *)
GetClientSettings(s, st) ==
    IF ~st.ai_enabled \/ st.api_key = ""
    THEN ReturnTo(s, None)
    ELSE IF IsDashScopeUrl(st.base_url)
              /\ (~AppIdParse(st.base_url).ok \/ AppIdParse(st.base_url).app_id = <<>>)
         THEN ReturnTo(s, None)
         ELSE [s EXCEPT !.settings = st, !.pc = "gc_construct"]

(* a variant that remembers the failure in the cache *)
get_client_settings_negative_cache(t) ==
    /\ th[t].pc = "gc_settings"
    /\ \E lookup \in SettingsLookup(th[t].cookie) :
          /\ th' = [th EXCEPT ![t] = IF lookup.ok THEN GetClientSettings(th[t], lookup.st)
                                                  ELSE ReturnTo(th[t], Raised)]
          /\ clients' = IF lookup.ok /\ GetClientSettings(th[t], lookup.st).pc # "gc_construct"
                        THEN CachePut(clients, th[t].cookie, None)
                        ELSE clients
    /\ UNCHANGED <<settings, store, clock, lock>>

get_client_settings(t) ==
    /\ th[t].pc = "gc_settings"
    /\ \E lookup \in SettingsLookup(th[t].cookie) :
          th' = [th EXCEPT ![t] = IF lookup.ok THEN GetClientSettings(th[t], lookup.st)
                                               ELSE ReturnTo(th[t], Raised)]
    /\ UNCHANGED <<settings, clients, store, clock, lock>>

(* lines 102-126: the constructor call and the cache write *)
NewClient(st, id) ==
    IF IsDashScopeUrl(st.base_url)
    THEN DashScopeClient(st.api_key, AppIdParse(st.base_url).app_id, id)
    ELSE OpenAI(st.api_key, st.base_url, id)

get_client_construct(t) ==
    /\ th[t].pc = "gc_construct"
    /\ \/ /\ clients' = CachePut(clients, th[t].cookie, NewClient(th[t].settings, FreshId))
          /\ th' = [th EXCEPT ![t].pc = "gc_return", ![t].settings = NoSettings]
       \/ /\ ~IsDashScopeUrl(th[t].settings.base_url)
          /\ th' = [th EXCEPT ![t] = ReturnTo([th[t] EXCEPT !.ctorfail = TRUE,
                                                            !.settings = NoSettings], None)]
          /\ UNCHANGED clients
    /\ UNCHANGED <<settings, store, clock, lock>>

(* line 128 *)
get_client_return(t) ==
    /\ th[t].pc = "gc_return"
    /\ th' = [th EXCEPT ![t] = ReturnTo(th[t], CacheGet(clients, th[t].cookie))]
    /\ UNCHANGED <<settings, clients, store, clock, lock>>

call_get_client(t, c) ==
    /\ th[t].pc = "idle"
    /\ th' = [th EXCEPT ![t] = [IdleT EXCEPT !.op = "get_client", !.pc = "gc_check",
                                             !.cookie = c]]
    /\ UNCHANGED <<settings, clients, store, clock, lock>>

-----------------------------------------------------------------------------
(* is_ai_enabled, lines 130-133: settings['ai_enabled'], or the lookup's exception. *)

IsAiEnabled(lookup) ==
    IF lookup.ok THEN [kind |-> "bool", val |-> lookup.st.ai_enabled] ELSE Raised

is_ai_enabled(t) ==
    /\ th[t].pc = "en_settings"
    /\ \E lookup \in SettingsLookup(th[t].cookie) :
          th' = [th EXCEPT ![t] = ReturnTo(th[t], IsAiEnabled(lookup))]
    /\ UNCHANGED <<settings, clients, store, clock, lock>>

-----------------------------------------------------------------------------
(* clear_client_cache, lines 274-281.  `given` is FALSE for a call without an
   account id (cookie_id = None). *)

ClearClientCache(cl, given, cookie_id) ==
    IF given /\ cookie_id # ""
    THEN CachePop(cl, cookie_id)
    ELSE NoClients

clear_client_cache(t) ==
    /\ th[t].pc = "cl_clear"
    /\ clients' = ClearClientCache(clients, th[t].given, th[t].cookie)
    /\ th' = [th EXCEPT ![t] = ReturnTo(th[t], None)]
    /\ UNCHANGED <<settings, store, clock, lock>>

call_clear_client_cache(t, given, c) ==
    /\ th[t].pc = "idle"
    /\ given \/ c = ""
    /\ th' = [th EXCEPT ![t] = [IdleT EXCEPT !.op = "clear_client_cache", !.pc = "cl_clear",
                                             !.cookie = c, !.given = given]]
    /\ UNCHANGED <<settings, clients, store, clock, lock>>

-----------------------------------------------------------------------------
(* The providers. *)

ClassifyOutputs == {"tech", "TECH", " tech ", "default", "maybe", ""}
ReplyOutputs == {"r", ""}

(* HTTP responses of the single-endpoint provider *)
DashScopeResponses(texts) ==
    { [kind |-> "transport_error"], [kind |-> "http_error"],
      [kind |-> "body", code |-> "Error", output |-> None],
      [kind |-> "body", code |-> "", output |-> None] }
    \cup { [kind |-> "body", code |-> "", output |-> Text(x)] : x \in texts }

(* a variant that treats a response without output text as an error *)
ChatCompletionStrict(r) ==
    IF r.kind # "body" THEN Raised
    ELSE IF r.code # "" THEN Raised
    ELSE IF r.output.kind = "str" /\ r.output.val # "" THEN Text(r.output.val)
    ELSE Raised

(* DashScopeClient.chat_completion, lines 50-67 *)
ChatCompletion(r) ==
    IF r.kind # "body" THEN Raised
    ELSE IF r.code # "" THEN Raised
    ELSE IF r.output.kind = "str" /\ r.output.val # "" THEN Text(r.output.val)
    ELSE Text("")

(* responses of the generic chat provider: an error, or choices[0].message.content *)
OpenAIResponses(texts) ==
    { [kind |-> "error"], [kind |-> "content", content |-> None] }
    \cup { [kind |-> "content", content |-> Text(x)] : x \in texts }

(* client.chat.completions.create(...) ... .content.strip(), lines 154-160, 215-221 *)
ChatCreate(r) ==
    IF r.kind # "content" THEN Raised
    ELSE IF r.content.kind # "str" THEN Raised
    ELSE Text(Strip(r.content.val))

(* The parameters a provider call carries.  The generic chat call names them
   (lines 157-158, 218-219); chat_completion(messages) leaves `parameters` at
   its default, which line 31 turns into {} (lines 152, 213). *)
Params(max_tokens, temperature) ==
    [given |-> TRUE, max_tokens |-> max_tokens, temperature |-> temperature]

EmptyParams == [given |-> FALSE, max_tokens |-> 0, temperature |-> ""]

ClassifyParams(client) ==
    IF client.kind = "DashScopeClient" THEN EmptyParams ELSE Params(10, "0.1")

GenerateParams(client) ==
    IF client.kind = "DashScopeClient" THEN EmptyParams ELSE Params(100, "0.7")

(* the text one provider call yields, or Raised *)
ProviderOutcomes(client, texts) ==
    IF client.kind = "DashScopeClient"
    THEN { ChatCompletion(r) : r \in DashScopeResponses(texts) }
    ELSE { ChatCreate(r) : r \in OpenAIResponses(texts) }

-----------------------------------------------------------------------------
(* detect_intent, lines 135-170. *)

(* lines 162-166 *)
NormalizeIntent(response_text) ==
    IF Lower(response_text) \in {"tech", "default"} THEN Lower(response_text) ELSE "default"

(* lines 137-149: after get_client, the settings read and the prompt choice *)
DetectIntentClient(s, lookup) ==
    IF s.ret.kind = "raise" THEN ReturnTo(s, Raised)
    ELSE IF ~IsClient(s.ret) THEN ReturnTo(s, Text("default"))
    ELSE IF ~lookup.ok THEN ReturnTo(s, Text("default"))
    ELSE IF ~PromptsParse(lookup.st.custom_prompts).ok THEN ReturnTo(s, Text("default"))
    ELSE [s EXCEPT !.client = s.ret, !.ret = None, !.pc = "di_provider"]

detect_intent_client(t) ==
    /\ th[t].pc = "di_client"
    /\ \E lookup \in SettingsLookup(th[t].cookie) :
          th' = [th EXCEPT ![t] = DetectIntentClient(th[t], lookup)]
    /\ UNCHANGED <<settings, clients, store, clock, lock>>

(* a variant that repeats a failed classification call once *)
DetectIntentProviderRetrying(s, out) ==
    IF out.kind = "raise" /\ \A i \in 1..Len(s.calls) : s.calls[i] # "classify"
    THEN [s EXCEPT !.calls = Append(@, "classify"),
                   !.params = Append(@, ClassifyParams(s.client))]
    ELSE ReturnTo([s EXCEPT !.calls = Append(@, "classify"),
                            !.params = Append(@, ClassifyParams(s.client)),
                            !.client = None],
                  Text(IF out.kind = "raise" THEN "default" ELSE NormalizeIntent(out.val)))

(* lines 151-170: the classification call and the normalisation *)
DetectIntentProvider(s, out) ==
    IF out.kind = "raise"
    THEN ReturnTo([s EXCEPT !.calls = Append(@, "classify"),
                            !.params = Append(@, ClassifyParams(s.client)),
                            !.client = None],
                  Text("default"))
    ELSE ReturnTo([s EXCEPT !.calls = Append(@, "classify"),
                            !.params = Append(@, ClassifyParams(s.client)),
                            !.client = None],
                  Text(NormalizeIntent(out.val)))

detect_intent_provider(t) ==
    /\ th[t].pc = "di_provider"
    /\ \E out \in ProviderOutcomes(th[t].client, ClassifyOutputs) :
          th' = [th EXCEPT ![t] = DetectIntentProvider(th[t], out)]
    /\ UNCHANGED <<settings, clients, store, clock, lock>>

call_detect_intent(t, c, m) ==
    /\ th[t].pc = "idle"
    /\ th' = [th EXCEPT ![t] =
                CallFrom([IdleT EXCEPT !.op = "detect_intent", !.cookie = c, !.message = m],
                         "gc_check", "di_client")]
    /\ UNCHANGED <<settings, clients, store, clock, lock>>

-----------------------------------------------------------------------------
(* The conversation store: ai_conversations behind db_manager.lock. *)

DefaultLimit == 20
PromptWindow == 10
Limits == {1, 2, DefaultLimit}

Row(cookie_id, chat_id, role, content, intent, created_at) ==
    [cookie_id |-> cookie_id, chat_id |-> chat_id, user_id |-> "u", item_id |-> "i",
     role |-> role, content |-> content, intent |-> intent, created_at |-> created_at]

Turn(row) == [role |-> row.role, content |-> row.content]

(* a variant of the WHERE clause that forgets the account *)
MatchingChatOnly(rows, chat_id, cookie_id) ==
    { i \in 1..Len(rows) : rows[i].chat_id = chat_id }

Matching(rows, chat_id, cookie_id) ==
    { i \in 1..Len(rows) : rows[i].chat_id = chat_id /\ rows[i].cookie_id = cookie_id }

MinNat(a, b) == IF a <= b THEN a ELSE b

LastK(s, k) == IF Len(s) <= k THEN s ELSE SubSeq(s, Len(s) - k + 1, Len(s))

(* SELECT ... WHERE chat_id = ? AND cookie_id = ? ORDER BY created_at DESC LIMIT ?
   Every answer the storage may give: the rows come newest first, and rows with
   equal created_at come in whatever order the storage picks. *)
SelectRecent(rows, chat_id, cookie_id, limit) ==
    LET M == Matching(rows, chat_id, cookie_id)
        k == MinNat(limit, Cardinality(M))
    IN { q \in [1..k -> M] :
           /\ \A i, j \in 1..k : i < j =>
                 /\ q[i] # q[j]
                 /\ rows[q[i]].created_at >= rows[q[j]].created_at
           /\ \A m \in M : (\A i \in 1..k : q[i] # m) =>
                 \A i \in 1..k : rows[m].created_at <= rows[q[i]].created_at }

(* line 245: the fetched rows reversed, as {role, content} *)
ContextOf(rows, q) == Reverse([i \in 1..Len(q) |-> Turn(rows[q[i]])])

(* the turns of a conversation in the order they were written *)
RECURSIVE History(_, _, _)
History(rows, chat_id, cookie_id) ==
    IF rows = <<>> THEN <<>>
    ELSE LET r == rows[Len(rows)]
             rest == History(SubSeq(rows, 1, Len(rows) - 1), chat_id, cookie_id)
         IN IF r.chat_id = chat_id /\ r.cookie_id = cookie_id
            THEN Append(rest, Turn(r)) ELSE rest

(* get_conversation_context, lines 233-249 *)
get_conversation_context_acquire(t) ==
    /\ th[t].pc = "cc_acquire"
    /\ lock = NoThread
    /\ lock' = t
    /\ th' = [th EXCEPT ![t].pc = "cc_execute"]
    /\ UNCHANGED <<settings, clients, store, clock>>

GetContextExecute(s, q, rows) ==
    [s EXCEPT !.context = ContextOf(rows, q), !.calls = Append(@, "read"),
              !.pc = "cc_release"]

GetContextFail(s) ==
    [s EXCEPT !.context = <<>>, !.rfail = TRUE, !.calls = Append(@, "read"),
              !.pc = "cc_release"]

get_conversation_context_execute(t) ==
    /\ th[t].pc = "cc_execute"
    /\ \/ \E q \in SelectRecent(store, th[t].chat, th[t].cookie, th[t].limit) :
             th' = [th EXCEPT ![t] = GetContextExecute(th[t], q, store)]
       \/ th' = [th EXCEPT ![t] = GetContextFail(th[t])]
    /\ UNCHANGED <<settings, clients, store, clock, lock>>

(* a variant that lets the storage error out of the function *)
get_conversation_context_release_raising(t) ==
    /\ th[t].pc = "cc_release"
    /\ lock' = NoThread
    /\ th' = [th EXCEPT ![t] = ReturnTo(th[t], IF th[t].rfail THEN Raised
                                                ELSE [kind |-> "list", val |-> th[t].context])]
    /\ UNCHANGED <<settings, clients, store, clock>>

get_conversation_context_release(t) ==
    /\ th[t].pc = "cc_release"
    /\ lock' = NoThread
    /\ th' = [th EXCEPT ![t] = ReturnTo(th[t], [kind |-> "list", val |-> th[t].context])]
    /\ UNCHANGED <<settings, clients, store, clock>>

(* save_conversation, lines 251-264 *)
save_conversation_acquire(t) ==
    /\ th[t].pc = "sc_acquire"
    /\ lock = NoThread
    /\ lock' = t
    /\ th' = [th EXCEPT ![t].pc = "sc_execute"]
    /\ UNCHANGED <<settings, clients, store, clock>>

(* a variant that drops the intent argument *)
SaveRowWithoutIntent(s, now) == Row(s.cookie, s.chat, s.role, s.content, "None", now)

SaveRow(s, now) == Row(s.cookie, s.chat, s.role, s.content, s.intent, now)

(* a variant that leaves the function on an error without releasing the lock *)
save_conversation_execute_leaking(t) ==
    /\ th[t].pc = "sc_execute"
    /\ \/ /\ store' = Append(store, SaveRow(th[t], clock))
          /\ th' = [th EXCEPT ![t].pc = "sc_release",
                              ![t].calls = Append(@, "write"),
                              ![t].wrote = Append(@, Len(store) + 1)]
       \/ /\ th' = [th EXCEPT ![t] = ReturnTo([th[t] EXCEPT !.wfail = @ + 1,
                                                            !.calls = Append(@, "write")],
                                              None)]
          /\ UNCHANGED store
    /\ UNCHANGED <<settings, clients, clock, lock>>

save_conversation_execute(t) ==
    /\ th[t].pc = "sc_execute"
    /\ \/ /\ store' = Append(store, SaveRow(th[t], clock))
          /\ th' = [th EXCEPT ![t].pc = "sc_release",
                              ![t].calls = Append(@, "write"),
                              ![t].wrote = Append(@, Len(store) + 1)]
       \/ /\ th' = [th EXCEPT ![t].pc = "sc_release", ![t].wfail = @ + 1,
                              ![t].calls = Append(@, "write")]
          /\ UNCHANGED store
    /\ UNCHANGED <<settings, clients, clock, lock>>

save_conversation_release(t) ==
    /\ th[t].pc = "sc_release"
    /\ lock' = NoThread
    /\ th' = [th EXCEPT ![t] = ReturnTo(th[t], None)]
    /\ UNCHANGED <<settings, clients, store, clock>>

(* rows the running calls may still write *)
WritesLeft(s) ==
    IF s.pc \in {"idle", "done"} THEN 0
    ELSE IF s.op = "generate_reply" THEN 2 - (Len(s.wrote) + s.wfail)
    ELSE IF s.op = "save_conversation" THEN 1 - (Len(s.wrote) + s.wfail)
    ELSE 0

RECURSIVE SumWrites(_)
SumWrites(T) ==
    IF T = {} THEN 0
    ELSE LET t == CHOOSE x \in T : TRUE IN WritesLeft(th[t]) + SumWrites(T \ {t})

Room(n) == Len(store) + SumWrites(Threads) + n <= MaxRows

RoomForReplies(n) == Len(store) + SumWrites(Threads) + n <= MaxTurns

call_get_conversation_context(t, chat, c, limit) ==
    /\ th[t].pc = "idle"
    /\ th' = [th EXCEPT ![t] = [IdleT EXCEPT !.op = "get_conversation_context",
                                             !.pc = "cc_acquire", !.chat = chat,
                                             !.cookie = c, !.limit = limit]]
    /\ UNCHANGED <<settings, clients, store, clock, lock>>

call_save_conversation(t, chat, c, role, content, intent) ==
    /\ th[t].pc = "idle"
    /\ th' = [th EXCEPT ![t] = [IdleT EXCEPT !.op = "save_conversation",
                                             !.pc = "sc_acquire", !.chat = chat,
                                             !.cookie = c, !.role = role,
                                             !.content = content, !.intent = intent]]
    /\ UNCHANGED <<settings, clients, store, clock, lock>>

-----------------------------------------------------------------------------
(* generate_reply, lines 172-231. *)

(* lines 175-178: after is_ai_enabled *)
GenerateReplyEnabled(s) ==
    IF s.ret.kind = "raise" THEN ReturnTo(s, Raised)
    ELSE IF ~s.ret.val THEN ReturnTo(s, None)
    ELSE CallFrom([s EXCEPT !.ret = None], "gc_check", "gr_client")

generate_reply_enabled(t) ==
    /\ th[t].pc = "gr_enabled"
    /\ th' = [th EXCEPT ![t] = GenerateReplyEnabled(th[t])]
    /\ UNCHANGED <<settings, clients, store, clock, lock>>

(* lines 178-186: after get_client, the settings read, then detect_intent *)
GenerateReplyClient(s, lookup) ==
    IF s.ret.kind = "raise" THEN ReturnTo(s, Raised)
    ELSE IF ~IsClient(s.ret) THEN ReturnTo(s, None)
    ELSE IF ~lookup.ok THEN ReturnTo(s, None)
    ELSE CallFrom(CallFrom([s EXCEPT !.gr_client = s.ret, !.ret = None,
                                     !.gr_settings = lookup.st],
                           "di_client", "gr_intent"),
                  "gc_check", "di_client")

generate_reply_client(t) ==
    /\ th[t].pc = "gr_client"
    /\ \E lookup \in SettingsLookup(th[t].cookie) :
          th' = [th EXCEPT ![t] = GenerateReplyClient(th[t], lookup)]
    /\ UNCHANGED <<settings, clients, store, clock, lock>>

(* lines 186-189: after detect_intent, the history read *)
GenerateReplyIntent(s) ==
    IF s.ret.kind = "raise" THEN ReturnTo(s, None)
    ELSE CallFrom([s EXCEPT !.intent = s.ret.val, !.ret = None, !.limit = DefaultLimit],
                  "cc_acquire", "gr_context")

generate_reply_intent(t) ==
    /\ th[t].pc = "gr_intent"
    /\ th' = [th EXCEPT ![t] = GenerateReplyIntent(th[t])]
    /\ UNCHANGED <<settings, clients, store, clock, lock>>

(* lines 189-223: after the history read, the prompts, the generation call,
   then the write of the user turn *)
GenerateReplyProvider(s, out) ==
    IF s.ret.kind = "raise" THEN ReturnTo(s, None)
    ELSE LET s1 == [s EXCEPT !.context = LastK(s.ret.val, PromptWindow), !.ret = None]
         IN IF ~PromptsParse(s.gr_settings.custom_prompts).ok THEN ReturnTo(s1, None)
            ELSE IF out.kind = "raise"
                 THEN ReturnTo([s1 EXCEPT !.calls = Append(@, "generate"),
                                          !.params = Append(@, GenerateParams(s.gr_client))],
                               None)
            ELSE CallFrom([s1 EXCEPT !.calls = Append(@, "generate"),
                                     !.params = Append(@, GenerateParams(s.gr_client)),
                                     !.reply = out,
                                     !.role = "user", !.content = s.message],
                          "sc_acquire", "gr_saved_user")

generate_reply_provider(t) ==
    /\ th[t].pc = "gr_context"
    /\ \E out \in ProviderOutcomes(th[t].gr_client, ReplyOutputs) :
          th' = [th EXCEPT ![t] = GenerateReplyProvider(th[t], out)]
    /\ UNCHANGED <<settings, clients, store, clock, lock>>

(* line 224: the write of the assistant turn *)
GenerateReplySavedUser(s) ==
    IF s.ret.kind = "raise" THEN ReturnTo(s, None)
    ELSE CallFrom([s EXCEPT !.role = "assistant", !.content = s.reply.val, !.ret = None],
                  "sc_acquire", "gr_saved_asst")

generate_reply_saved_user(t) ==
    /\ th[t].pc = "gr_saved_user"
    /\ th' = [th EXCEPT ![t] = GenerateReplySavedUser(th[t])]
    /\ UNCHANGED <<settings, clients, store, clock, lock>>

(* a variant that reports an empty reply as no reply *)
GenerateReplyReturnEmptyAsNothing(s) ==
    IF s.ret.kind = "raise" \/ s.reply.val = "" THEN ReturnTo(s, None)
    ELSE ReturnTo(s, s.reply)

(* lines 226-227 *)
GenerateReplyReturn(s) ==
    IF s.ret.kind = "raise" THEN ReturnTo(s, None) ELSE ReturnTo(s, s.reply)

generate_reply_return(t) ==
    /\ th[t].pc = "gr_saved_asst"
    /\ th' = [th EXCEPT ![t] = GenerateReplyReturn(th[t])]
    /\ UNCHANGED <<settings, clients, store, clock, lock>>

call_generate_reply(t, m, chat, c) ==
    /\ th[t].pc = "idle"
    /\ th' = [th EXCEPT ![t] =
                CallFrom([IdleT EXCEPT !.op = "generate_reply", !.message = m,
                                       !.chat = chat, !.cookie = c],
                         "en_settings", "gr_enabled")]
    /\ UNCHANGED <<settings, clients, store, clock, lock>>

(* the caller takes the result; the thread is free for its next call *)
Return(t) ==
    /\ th[t].pc = "done"
    /\ th' = [th EXCEPT ![t] = IdleT]
    /\ UNCHANGED <<settings, clients, store, clock, lock>>

-----------------------------------------------------------------------------
(* The engine after construction (line 285), with some settings stored. *)

Init ==
    /\ settings \in [Cookies -> {DefaultSettings}]
    /\ clients = NoClients
    /\ store = <<>>
    /\ clock = 0
    /\ lock = NoThread
    /\ th = [t \in Threads |-> IdleT]

(* no call is running: the workers are between requests *)
Quiescent == \A t \in Threads : th[t].pc = "idle"

GetClientStep(t) ==
    \/ get_client_check(t)
    \/ get_client_settings(t)
    \/ get_client_construct(t)
    \/ get_client_return(t)
    \/ Return(t)

ClientStep(t) ==
    \/ GetClientStep(t)
    \/ clear_client_cache(t)

IntentStep(t) ==
    \/ detect_intent_client(t)
    \/ detect_intent_provider(t)

StoreStep(t) ==
    \/ get_conversation_context_acquire(t)
    \/ get_conversation_context_execute(t)
    \/ get_conversation_context_release(t)
    \/ save_conversation_acquire(t)
    \/ save_conversation_execute(t)
    \/ save_conversation_release(t)

ReplyStep(t) ==
    \/ is_ai_enabled(t)
    \/ generate_reply_enabled(t)
    \/ generate_reply_client(t)
    \/ generate_reply_intent(t)
    \/ generate_reply_provider(t)
    \/ generate_reply_saved_user(t)
    \/ generate_reply_return(t)

ClientCall(t, C) ==
    \/ \E c \in C : call_get_client(t, c)
    \/ \E given \in BOOLEAN, c \in C : call_clear_client_cache(t, given, c)

IntentCall(t, C) ==
    \E c \in C, m \in Messages : call_detect_intent(t, c, m)

StoreRead(t, CH, C) ==
    \E chat \in CH, c \in C, limit \in Limits :
       call_get_conversation_context(t, chat, c, limit)

StoreWrite(t, CH, C) ==
    \E chat \in CH, c \in C, role \in Roles, m \in Messages :
       call_save_conversation(t, chat, c, role, m, "default")

ReplyCall(t, CH, C) ==
    \E m \in Messages, chat \in CH, c \in C : call_generate_reply(t, m, chat, c)

(* The reply pipeline: one worker composing replies for one account while the
   account's settings are edited and its cache entry is dropped. *)
ReplySettings ==
    { Settings(FALSE, "k1", URL_GENERIC, PROMPTS_EMPTY),
      Settings(TRUE, "", URL_GENERIC, PROMPTS_EMPTY),
      Settings(TRUE, "k1", URL_GENERIC, PROMPTS_EMPTY),
      Settings(TRUE, "k1", URL_GENERIC, PROMPTS_MALFORMED),
      Settings(TRUE, "k1", URL_DS_OK, PROMPTS_EMPTY) }

Next ==
    \/ ClientStep("t1") \/ IntentStep("t1") \/ StoreStep("t1") \/ ReplyStep("t1")
    \/ Room(2) /\ ReplyCall("t1", {"c1"}, {"a"})
    \/ \E c \in {"a"} : call_clear_client_cache("t1", TRUE, c)
    \/ \E st \in ReplySettings : Quiescent /\ SetSettings("a", st)
    \/ Tick

Spec == Init /\ [][Next]_vars

(* The client cache and the classifier: one worker, two accounts, every kind
   of settings. *)
NextCache ==
    \/ ClientStep("t1") \/ IntentStep("t1")
    \/ ClientCall("t1", Cookies) \/ IntentCall("t1", Cookies)
    \/ \E c \in Cookies, st \in SettingsValues : Quiescent /\ SetSettings(c, st)

SpecCache == Init /\ [][NextCache]_vars

(* The conversation store: one worker writing and reading turns while the
   storage clock advances. *)
NextStore ==
    \/ StoreStep("t1") \/ Return("t1")
    \/ StoreRead("t1", Chats, {"a"})
    \/ Room(1) /\ StoreWrite("t1", Chats, {"a"})
    \/ Tick

SpecStore == Init /\ [][NextStore]_vars

(* The client cache under threads: two workers resolving the client of one
   account at the same time, while the account's credentials are changed and
   its cache entry is dropped.  An edit of the credentials comes before the
   clear_client_cache call that announces it: from the start of that call
   until its caller has taken the return, the credentials stay as edited. *)
ThreadSettings ==
    { Settings(TRUE, "k1", URL_GENERIC, PROMPTS_EMPTY),
      Settings(TRUE, "k2", URL_NONE, PROMPTS_JSON) }

NextThreads ==
    \/ \E t \in Threads :
          \/ ClientStep(t)
          \/ call_get_client(t, "a")
          \/ call_clear_client_cache(t, TRUE, "a")
    \/ \E st \in ThreadSettings :
          /\ \A t \in Threads : th[t].op # "clear_client_cache"
          /\ SetSettings("a", st)

SpecThreads == Init /\ [][NextThreads]_vars

(* The same without invalidation: two workers resolving clients of the two
   accounts, nobody dropping a cache entry. *)
NextRace ==
    \/ \E t \in Threads :
          \/ GetClientStep(t)
          \/ \E c \in Cookies : call_get_client(t, c)
    \/ \E c \in Cookies, st \in ThreadSettings : SetSettings(c, st)

SpecRace == Init /\ [][NextRace]_vars

(* The storage lock under threads: two workers reading and writing the turns
   of one conversation at the same time. *)
NextLock ==
    \/ \E t \in Threads :
          \/ StoreStep(t) \/ Return(t)
          \/ StoreRead(t, {"c1"}, {"a"})
          \/ Room(1) /\ StoreWrite(t, {"c1"}, {"a"})
    \/ Tick

SpecLock == Init /\ [][NextLock]_vars

(* The prompt history: one worker composing a reply and then a second one,
   which reads the turns the first one stored, while the storage clock
   advances or not between the writes. *)
NextPrompt ==
    \/ GetClientStep("t1") \/ IntentStep("t1") \/ StoreStep("t1") \/ ReplyStep("t1")
    \/ RoomForReplies(2) /\ ReplyCall("t1", {"c1"}, {"a"})
    \/ \E st \in ThreadSettings : Quiescent /\ SetSettings("a", st)
    \/ Tick

SpecPrompt == Init /\ [][NextPrompt]_vars

(* The reply pipeline run to its end: one worker composing replies, its
   thread scheduled until the call returns (nothing in a call waits for
   another call: the storage lock is free whenever the one worker asks). *)
NextPipeline ==
    \/ GetClientStep("t1") \/ IntentStep("t1") \/ StoreStep("t1") \/ ReplyStep("t1")
    \/ Room(2) /\ ReplyCall("t1", {"c1"}, {"a"})
    \/ \E st \in ReplySettings : Quiescent /\ SetSettings("a", st)

SpecPipeline ==
    /\ Init /\ [][NextPipeline]_vars
    /\ WF_vars(GetClientStep("t1") \/ IntentStep("t1") \/ StoreStep("t1") \/ ReplyStep("t1"))

(* Replies under threads: two workers composing replies in one conversation
   of one account at the same time, on a day without faults: the storage
   answers every read, write and settings lookup, and the client constructor
   succeeds.  (The providers answer as they like.) *)
NoFault ==
    \A t \in Threads :
       /\ ~th[t].rfail /\ th[t].wfail = 0 /\ ~th[t].ctorfail
       /\ th[t].ret.kind # "raise" /\ th[t].result.kind # "raise"

NextTurns ==
    \/ \E t \in Threads :
          \/ (GetClientStep(t) \/ IntentStep(t) \/ StoreStep(t) \/ ReplyStep(t)) /\ NoFault'
          \/ RoomForReplies(2) /\ ReplyCall(t, {"c1"}, {"a"})
    \/ \E st \in ThreadSettings : Quiescent /\ SetSettings("a", st)

SpecTurns == Init /\ [][NextTurns]_vars

(* Conversations side by side: one worker writing turns to the conversations
   of two accounts and reading them back, each turn's content naming the
   conversation it was written to. *)
Label(chat_id, cookie_id) == chat_id \o "@" \o cookie_id

LabelledWrite(t, CH, C) ==
    \E chat \in CH, c \in C :
       call_save_conversation(t, chat, c, "user", Label(chat, c), "default")

NextIsolation ==
    \/ StoreStep("t1") \/ Return("t1")
    \/ StoreRead("t1", Chats, Cookies)
    \/ Room(1) /\ LabelledWrite("t1", Chats, Cookies)
    \/ Tick

SpecIsolation == Init /\ [][NextIsolation]_vars

-----------------------------------------------------------------------------
(* Properties. *)

Running(t, op) == th[t].op = op
Done(t, op) == th[t].op = op /\ th[t].pc = "done"

(* C1: while the settings of its account have ai_enabled = false or an empty
   api_key, a generate_reply call makes no provider call and returns no reply,
   also when a client of the account is still cached from earlier, valid
   settings.  (Settings change only between calls in Spec.) *)
C1_DisabledNoProviderCall ==
    \A t \in Threads :
       Running(t, "generate_reply") /\ Disabled(settings[th[t].cookie]) =>
          /\ th[t].calls = <<>>
          /\ th[t].pc = "done" => th[t].result.kind # "str"

(* C2: detect_intent ends with one of the labels 'tech' and 'default',
   whatever the provider answers and whatever fails; it never raises. *)
C2_IntentIsLabel ==
    \A t \in Threads :
       Done(t, "detect_intent") =>
          th[t].result.kind = "str" /\ th[t].result.val \in {"tech", "default"}

(* C3: generate_reply never raises: whichever step fails, the call returns
   nothing. *)
C3_NeverRaises ==
    \A t \in Threads : Done(t, "generate_reply") => th[t].result.kind # "raise"

(* C4: a successful get_conversation_context returns the last `limit` turns of
   the conversation (all of them when there are no more) in the order they were
   written, also when turns carry the same created_at. *)
C4_ReadInWriteOrder ==
    \A t \in Threads :
       Done(t, "get_conversation_context") /\ ~th[t].rfail =>
          th[t].result.val = LastK(History(store, th[t].chat, th[t].cookie), th[t].limit)

(* C5: clear_client_cache called with an account id, the empty string
   included, removes that account's entry and no other. *)
C5_ClearOnlyThatAccount ==
    [][\A t \in Threads :
          th[t].pc = "cl_clear" /\ th'[t].pc = "done" /\ th[t].given =>
             clients' = CachePop(clients, th[t].cookie)]_vars

(* the client instances of account c that are cached or held by a call *)
LiveInstances(c) ==
    { clients[k].id : k \in DOMAIN clients \cap {c} }
    \cup { x.id : x \in { y \in UNION { {th[t].ret, th[t].client, th[t].gr_client, th[t].result}
                                         : t \in { u \in Threads : th[u].cookie = c
                                                                    /\ th[u].op # "idle" } }
                          : IsClient(y) } }

(* C6: at any time at most one client instance of an account is live: cached
   or held by a running call. *)
C6_OneLiveClient == \A c \in Cookies : Cardinality(LiveInstances(c)) <= 1

(* settings from which get_client can build a client *)
Constructible(st) ==
    /\ ~Disabled(st)
    /\ IsDashScopeUrl(st.base_url) =>
          AppIdParse(st.base_url).ok /\ AppIdParse(st.base_url).app_id # <<>>

(* C7: a failed get_client caches nothing: the cache holds clients only, a call
   that returns no client leaves no entry for the account, and a call returns
   None only for a cause of its own (settings that cannot be built from, or a
   constructor exception), never because an earlier call failed. *)
C7_FailureNotCached ==
    /\ \A c \in DOMAIN clients : IsClient(clients[c])
    /\ \A t \in Threads :
          Done(t, "get_client") /\ ~IsClient(th[t].result) =>
             th[t].cookie \notin DOMAIN clients
    /\ \A t \in Threads :
          Done(t, "get_client") /\ th[t].result.kind = "None" =>
             ~Constructible(settings[th[t].cookie]) \/ th[t].ctorfail

C7_Witness ==
    \E t \in Threads :
       /\ Done(t, "get_client") /\ th[t].result.kind = "None"
       /\ settings[th[t].cookie].base_url = URL_DS_NOAPPS
       /\ ~Disabled(settings[th[t].cookie])

InStorage(t) == th[t].pc \in {"cc_execute", "cc_release", "sc_execute", "sc_release"}

(* C8: the storage sections of get_conversation_context and save_conversation
   exclude each other, the thread inside holds the lock, and the lock is held
   by nobody else: a call that has left, with or without a storage error, has
   released it. *)
C8_StorageSerialized ==
    /\ \A t, u \in Threads : InStorage(t) /\ InStorage(u) => t = u
    /\ \A t \in Threads : InStorage(t) => lock = t
    /\ lock # NoThread => InStorage(lock)

C8_Witness ==
    \E t, u \in Threads :
       /\ t # u
       /\ Done(t, "save_conversation") /\ th[t].wfail = 1
       /\ th[u].pc = "cc_execute" /\ lock = u

Range(f) == { f[i] : i \in DOMAIN f }

(* C9: a storage error never stops the reply: a failed history read hands the
   composer an empty sequence, a write returns silently, the generation call
   is still made after a failed read, and a reply the provider gave is
   returned whatever the reads and writes did. *)
C9_StorageErrorSwallowed ==
    \A t \in Threads :
       Running(t, "generate_reply") =>
          /\ th[t].pc = "gr_context" /\ th[t].rfail =>
                th[t].ret = [kind |-> "list", val |-> <<>>]
          /\ th[t].pc \in {"gr_saved_user", "gr_saved_asst"} => th[t].ret.kind = "None"
          /\ th[t].pc = "done" /\ th[t].reply.kind = "str" => th[t].result = th[t].reply
          /\ th[t].pc = "done" /\ th[t].rfail
                /\ PromptsParse(th[t].gr_settings.custom_prompts).ok =>
                "generate" \in Range(th[t].calls)

C9_Witness ==
    \E t \in Threads :
       /\ Done(t, "generate_reply")
       /\ th[t].rfail /\ th[t].wfail = 2
       /\ th[t].result.kind = "str"

(* C10: a generate_reply call that returns a reply, with both writes done,
   has appended exactly two rows to its conversation, the last two of the
   table: the user turn with the inbound message, then the assistant turn with
   the returned reply, both with the intent detected in the call; and no step
   changes or removes a stored row. *)
C10_Appended(t) ==
    /\ Len(th[t].wrote) = 2
    /\ th[t].wrote = <<Len(store) - 1, Len(store)>>
    /\ LET u == store[th[t].wrote[1]]
           a == store[th[t].wrote[2]]
       IN /\ u.role = "user" /\ u.content = th[t].message
          /\ a.role = "assistant" /\ a.content = th[t].result.val
          /\ u.intent = th[t].intent /\ a.intent = th[t].intent
          /\ th[t].intent \in {"tech", "default"}
          /\ u.chat_id = th[t].chat /\ a.chat_id = th[t].chat
          /\ u.cookie_id = th[t].cookie /\ a.cookie_id = th[t].cookie

C10_TwoTurnsAppended ==
    /\ [](\A t \in Threads :
             Done(t, "generate_reply") /\ th[t].result.kind = "str" /\ th[t].wfail = 0 =>
                C10_Appended(t))
    /\ [][IsPrefix(store, store')]_vars

C10_Witness ==
    \E t \in Threads :
       /\ Done(t, "generate_reply") /\ th[t].result.kind = "str" /\ th[t].wfail = 0
       /\ th[t].intent = "tech"
       /\ Len(store) = 3

(* C11: the history in the prompt of a generate_reply call is the last
   PromptWindow turns stored for its conversation and account (all of them
   when there are fewer), oldest first: right after the generation call, the
   turns the call embedded are the tail of the conversation's history, unless
   the history read failed. *)
C11_PromptIsRecentHistory ==
    \A t \in Threads :
       /\ Running(t, "generate_reply")
       /\ th[t].calls # <<>> /\ th[t].calls[Len(th[t].calls)] = "generate"
       /\ ~th[t].rfail
       => th[t].context = LastK(History(store, th[t].chat, th[t].cookie), PromptWindow)

(* the order of the calls of one reply: classification (when it is made),
   history read, generation, the two writes *)
PipelineOrders ==
    { SubSeq(<<"classify", "read", "generate", "write", "write">>, i, j) :
         i \in 1..2, j \in 0..5 }

(* C12: a generate_reply call runs the pipeline once and ends: the calls it
   has made are, at every moment, an initial part of classification, history
   read, generation, write, write (the classification at most once and before
   the read, the generation at most once and after the read, the writes after
   the generation, nothing repeated), and every call reaches its return. *)
C12_OneShotPipeline ==
    /\ [](\A t \in Threads :
             Running(t, "generate_reply") => th[t].calls \in PipelineOrders)
    /\ \A t \in Threads : Running(t, "generate_reply") ~> th[t].pc = "done"

C12_Witness ==
    \E t \in Threads :
       /\ Done(t, "generate_reply")
       /\ th[t].calls = <<"classify", "read", "generate", "write", "write">>
       /\ th[t].result.kind = "str"

IsProviderCall(c) == c \in {"classify", "generate"}

(* C13: every provider call carries the output bounds of its stage, whichever
   kind of client makes it: max 10 tokens at temperature 0.1 for the
   classification call, max 100 tokens at temperature 0.7 for the generation
   call. *)
C13_CallsCarryBounds ==
    \A t \in Threads :
       LET made == SelectSeq(th[t].calls, IsProviderCall)
       IN \A i \in 1..Len(made) :
             th[t].params[i] = IF made[i] = "classify" THEN Params(10, "0.1")
                                                       ELSE Params(100, "0.7")

(* a response of the single-endpoint provider with a zero error code and no
   output, or no output text *)
NoOutput(r) ==
    /\ r.kind = "body" /\ r.code = ""
    /\ (r.output.kind = "None" \/ r.output.val = "")

(* C14: a single-endpoint response with no output and no error code is not an
   error: chat_completion returns the empty text for it, and a generate_reply
   call whose generation call gave the empty text returns the empty text (not
   None) after writing the user turn and then an assistant turn with empty
   content (each written unless the storage refused it). *)
C14_EmptyTextPassesThrough ==
    /\ \A r \in DashScopeResponses(ReplyOutputs) :
          NoOutput(r) => ChatCompletion(r) = Text("")
    /\ \A t \in Threads :
          /\ Done(t, "generate_reply")
          /\ th[t].gr_client.kind = "DashScopeClient"
          /\ th[t].reply.kind = "str" /\ th[t].reply.val = ""
          => /\ th[t].result = Text("")
             /\ SubSeq(th[t].calls, Len(th[t].calls) - 2, Len(th[t].calls))
                   = <<"generate", "write", "write">>
             /\ th[t].wfail = 0 =>
                   /\ Len(th[t].wrote) = 2
                   /\ Turn(store[th[t].wrote[1]]) = [role |-> "user", content |-> th[t].message]
                   /\ Turn(store[th[t].wrote[2]]) = [role |-> "assistant", content |-> ""]

C14_Witness ==
    \E t \in Threads :
       /\ Done(t, "generate_reply")
       /\ th[t].gr_client.kind = "DashScopeClient"
       /\ th[t].result = Text("")
       /\ Len(th[t].wrote) = 2
       /\ store[th[t].wrote[2]].content = ""

(* C15: the two turns one generate_reply call stores are adjacent in the
   table, whatever other calls do in the same conversation: the assistant turn
   is the row right after the user turn of the same call. *)
C15_TurnsAdjacent ==
    \A t \in Threads :
       Running(t, "generate_reply") /\ Len(th[t].wrote) = 2 =>
          /\ store[th[t].wrote[1]].role = "user"
          /\ th[t].wrote[2] = th[t].wrote[1] + 1

(* C16: once clear_client_cache(account) has returned after a change of the
   account's credentials, the cache holds no client built from the old
   credentials, also when another thread had read the old settings inside
   get_client before the entry was dropped: while the caller of
   clear_client_cache holds its return (the credentials are unchanged since
   the call began), a cached client of the account has the stored api_key. *)
C16_NoStaleClientAfterClear ==
    \A u \in Threads :
       Done(u, "clear_client_cache") /\ th[u].cookie \in DOMAIN clients =>
          clients[th[u].cookie].api_key = settings[th[u].cookie].api_key

(* C17: a generate_reply call that returns no reply has written nothing: it
   made no write call, so the table is as it was for it, whether the account
   was disabled, no client could be resolved or the generation failed; a call
   writes only once it holds the reply it is going to return. *)
C17_NothingReturnedNothingWritten ==
    \A t \in Threads :
       Running(t, "generate_reply") =>
          /\ th[t].pc = "done" /\ th[t].result.kind # "str" =>
                /\ th[t].wrote = <<>> /\ th[t].wfail = 0
                /\ "write" \notin Range(th[t].calls)
          /\ "write" \in Range(th[t].calls) => th[t].reply.kind = "str"

C17_Witness ==
    \E t \in Threads :
       /\ Done(t, "generate_reply") /\ th[t].result.kind = "None"
       /\ th[t].calls = <<"classify", "read", "generate">>
       /\ Len(store) = 1

(* C18: conversations are isolated by (chat_id, cookie_id): a successful
   get_conversation_context returns turns of its own conversation and account
   only, and as many of them as the limit allows, however many turns other
   conversations and accounts hold and however recent they are. *)
C18_ConversationsIsolated ==
    \A t \in Threads :
       Done(t, "get_conversation_context") /\ ~th[t].rfail =>
          LET turns == th[t].result.val
          IN /\ \A i \in 1..Len(turns) :
                   turns[i].content = Label(th[t].chat, th[t].cookie)
             /\ Len(turns) = MinNat(th[t].limit,
                                    Len(History(store, th[t].chat, th[t].cookie)))

C18_Witness ==
    \E t \in Threads :
       /\ Done(t, "get_conversation_context") /\ ~th[t].rfail
       /\ th[t].chat = "c1" /\ th[t].cookie = "a" /\ th[t].limit = 1
       /\ Len(store) = 3
       /\ store[1].chat_id = "c1" /\ store[1].cookie_id = "a"
       /\ store[2].chat_id = "c2" /\ store[2].cookie_id = "a"
       /\ store[3].chat_id = "c1" /\ store[3].cookie_id = ""
       /\ th[t].result.val = <<[role |-> "user", content |-> "c1@a"]>>

====
